---- MODULE Spec2Model ----
(***************************************************************************)
(* Model of main.py (EbookSearcher): environment loading, the site list    *)
(* loader, the query builder, the paginated search of each site, the       *)
(* aggregation in search_books and the CSV export.                         *)
(*                                                                         *)
(* A Python str is a sequence of one-character strings; a Python list is a *)
(* sequence; a dict is a function on its keys.                             *)
(***************************************************************************)
EXTENDS Integers, Sequences, FiniteSets, TLC

(* ---------------------------- bounds ---------------------------------- *)
\* the largest MAX_RESULTS_PER_SITE tried is PageSize + MaxCap
MaxCap == 2
\* how many items more than the requested num a page may carry
MaxExtra == 1

(* ------------------------ program constants --------------------------- *)
\* os.getenv('MAX_RESULTS_PER_SITE', 10)
DefaultCap == 10
\* min(10, ...): items requested per call
PageSize == 10
\* while ... start_index <= 91
MaxStart == 91
\* start_index = 1
FirstStart == 1
\* start_index += 10
StartStep == 10
\* response.status_code != 200
StatusOK == 200

(* ---------------------------- characters ------------------------------ *)
Lower == {"a","b","c","d","e","f","g","h","i","j","k","l","m",
          "n","o","p","q","r","s","t","u","v","w","x","y","z"}
Upper == {"A","B","C","D","E","F","G","H","I","J","K","L","M",
          "N","O","P","Q","R","S","T","U","V","W","X","Y","Z"}
Digits == {"0","1","2","3","4","5","6","7","8","9"}
Letters == Lower \cup Upper
Whitespace == {" ", "\t", "\n", "\r"}

\* None, and a value that is not None
None == [isNone |-> TRUE]
Some(v) == [isNone |-> FALSE, val |-> v]

(* ----------------------- str helpers of Python ------------------------ *)
RECURSIVE LStrip(_)
LStrip(s) == IF s # <<>> /\ Head(s) \in Whitespace THEN LStrip(Tail(s)) ELSE s

RECURSIVE RStrip(_)
RStrip(s) ==
    IF s # <<>> /\ s[Len(s)] \in Whitespace
    THEN RStrip(SubSeq(s, 1, Len(s) - 1))
    ELSE s

\* str.strip()
Strip(s) == RStrip(LStrip(s))

\* str.split(sep) for a one-character sep: never returns an empty list
RECURSIVE Split(_, _)
Split(s, sep) ==
    IF \E i \in 1..Len(s) : s[i] = sep
    THEN LET i == CHOOSE j \in 1..Len(s) :
                     s[j] = sep /\ \A k \in 1..(j - 1) : s[k] # sep
         IN <<SubSeq(s, 1, i - 1)>> \o Split(SubSeq(s, i + 1, Len(s)), sep)
    ELSE <<s>>

\* sep.join(parts)
RECURSIVE Join(_, _)
Join(sep, parts) ==
    IF parts = <<>> THEN <<>>
    ELSE IF Len(parts) = 1 THEN parts[1]
    ELSE parts[1] \o sep \o Join(sep, Tail(parts))

\* [f(x) for x in xs if keep(x)] with f = Strip, keep = Strip(x) non-empty
RECURSIVE StripNonEmpty(_)
StripNonEmpty(xs) ==
    IF xs = <<>> THEN <<>>
    ELSE IF Strip(Head(xs)) # <<>>
         THEN <<Strip(Head(xs))>> \o StripNonEmpty(Tail(xs))
         ELSE StripNonEmpty(Tail(xs))

\* value of a run of decimal digits
RECURSIVE DigitsValue(_)
DigitsValue(ds) ==
    IF ds = <<>> THEN 0
    ELSE DigitsValue(SubSeq(ds, 1, Len(ds) - 1)) * 10
         + (CHOOSE d \in 0..9 : <<"0","1","2","3","4","5","6","7","8","9">>[d + 1] = ds[Len(ds)])

\* int(v) of a str v: surrounding whitespace and a sign are accepted;
\* the result None stands for the ValueError int() raises
ParseInt(v) ==
    LET s == Strip(v)
        signed == s # <<>> /\ Head(s) \in {"-", "+"}
        ds == IF signed THEN Tail(s) ELSE s
    IN IF ds # <<>> /\ \A i \in 1..Len(ds) : ds[i] \in Digits
       THEN Some(IF signed /\ Head(s) = "-" THEN 0 - DigitsValue(ds) ELSE DigitsValue(ds))
       ELSE None

(* ------------------------- urllib.parse.quote ------------------------- *)
\* characters quote() never encodes, plus the default safe='/'
QuoteSafe == Letters \cup Digits \cup {"_", ".", "-", "~", "/"}

\* %XX of the ASCII characters the model's strings use
PercentCode(c) ==
    CASE c = " "  -> <<"%","2","0">>
      [] c = "\"" -> <<"%","2","2">>
      [] c = "%"  -> <<"%","2","5">>
      [] c = "+"  -> <<"%","2","B">>
      [] c = ","  -> <<"%","2","C">>
      [] c = ":"  -> <<"%","3","A">>

RECURSIVE quote(_)
quote(s) ==
    IF s = <<>> THEN <<>>
    ELSE (IF Head(s) \in QuoteSafe THEN <<Head(s)>> ELSE PercentCode(Head(s)))
         \o quote(Tail(s))

(* --------------------- EbookSearcher.build_query ---------------------- *)
\* [f'"{keyword}"' for keyword in keywords]
RECURSIVE QuoteEach(_)
QuoteEach(keywords) ==
    IF keywords = <<>> THEN <<>>
    ELSE <<(<<"\"">> \o Head(keywords) \o <<"\"">>)>> \o QuoteEach(Tail(keywords))

\* [f'filetype:{ft}' for ft in filetypes]
RECURSIVE FiletypeEach(_)
FiletypeEach(filetypes) ==
    IF filetypes = <<>> THEN <<>>
    ELSE <<(<<"f","i","l","e","t","y","p","e",":">> \o Head(filetypes))>>
         \o FiletypeEach(Tail(filetypes))

\* truthiness of an optional str / list argument: None, "" and [] are falsy
Truthy(x) == ~x.isNone /\ x.val # <<>>

\* variant: the file types follow the keywords without a space
build_query_raw_nospace(keywords, site, filetypes) ==
    (IF Truthy(site) THEN <<"s","i","t","e",":">> \o site.val \o <<" ">> ELSE <<>>)
    \o Join(<<" ">>, QuoteEach(keywords))
    \o (IF Truthy(filetypes)
        THEN Join(<<" ","O","R"," ">>, FiletypeEach(filetypes.val))
        ELSE <<>>)

\* the local variable query at the return statement, before quote();
\* site and filetypes are None or Some(value)
build_query_raw(keywords, site, filetypes) ==
    LET keyword_query == Join(<<" ">>, QuoteEach(keywords))
        q0 == <<>>
        q1 == IF Truthy(site)
              THEN q0 \o <<"s","i","t","e",":">> \o site.val \o <<" ">>
              ELSE q0
        q2 == q1 \o keyword_query
        q3 == IF Truthy(filetypes)
              THEN q2 \o <<" ">> \o Join(<<" ","O","R"," ">>, FiletypeEach(filetypes.val))
              ELSE q2
    IN q3

build_query(keywords, site, filetypes) == quote(build_query_raw(keywords, site, filetypes))

\* inverse of quote on its image: %XX back to the character
Unquote2(h1, h2) ==
    CASE <<h1, h2>> = <<"2","0">> -> " "
      [] <<h1, h2>> = <<"2","2">> -> "\""
      [] <<h1, h2>> = <<"2","5">> -> "%"
      [] <<h1, h2>> = <<"2","B">> -> "+"
      [] <<h1, h2>> = <<"2","C">> -> ","
      [] <<h1, h2>> = <<"3","A">> -> ":"

RECURSIVE unquote(_)
unquote(s) ==
    IF s = <<>> THEN <<>>
    ELSE IF Head(s) = "%" /\ Len(s) >= 3
         THEN <<Unquote2(s[2], s[3])>> \o unquote(SubSeq(s, 4, Len(s)))
         ELSE <<Head(s)>> \o unquote(Tail(s))

(* --------------------- EbookSearcher.get_ebook_sites ------------------ *)
\* [a-zA-Z0-9.-]
HostChars == Letters \cup Digits \cup {".", "-"}

\* url_pattern.match(s) for ^[a-zA-Z0-9.-]+\.[a-zA-Z]{2,}$ on a stripped line
UrlMatch(s) ==
    \E p \in 2..Len(s) :
        /\ s[p] = "."
        /\ Len(s) - p >= 2
        /\ \A i \in 1..(p - 1) : s[i] \in HostChars
        /\ \A i \in (p + 1)..Len(s) : s[i] \in Letters

\* [line.strip() for line in file if url_pattern.match(line.strip())]
RECURSIVE ValidSites(_)
ValidSites(lines) ==
    IF lines = <<>> THEN <<>>
    ELSE IF UrlMatch(Strip(Head(lines)))
         THEN <<Strip(Head(lines))>> \o ValidSites(Tail(lines))
         ELSE ValidSites(Tail(lines))

(* ---------------------- load_and_clean_env_list ----------------------- *)
\* os.getenv(name, default) on an environment whose unset names hold None
getenv(e, name, default) == IF e[name] = None THEN default ELSE e[name].val

load_and_clean_env_list(e, env_var) ==
    StripNonEmpty(Split(getenv(e, env_var, <<>>), ","))

(* ----------------------- EbookSearcher._perform_search ---------------- *)
Min(a, b) == IF a < b THEN a ELSE b

\* while len(results) < max_results and start_index <= 91
LoopGuard(n, start, max_results) == n < max_results /\ start <= MaxStart

\* variant: the remaining count, not limited to a page
NumParam_unbounded(max_results, n) == max_results - n

\* 'num': min(10, max_results - len(results))
NumParam(max_results, n) == Min(PageSize, max_results - n)

\* item.get(key, '')
Get(item, key) == IF key \in DOMAIN item THEN item[key] ELSE <<>>

\* the dict built from one API item
MakeResult(item) ==
    [title        |-> Get(item, "title"),
     link         |-> Get(item, "link"),
     snippet      |-> Get(item, "snippet"),
     displayLink  |-> Get(item, "displayLink"),
     formattedUrl |-> Get(item, "formattedUrl")]

\* for item in data['items']: results.append(result)
RECURSIVE AppendItems(_, _)
AppendItems(rs, items) ==
    IF items = <<>> THEN rs
    ELSE AppendItems(Append(rs, MakeResult(Head(items))), Tail(items))

\* variant: the whole list
Truncate_all(rs, max_results) == rs

\* variant: nothing
Truncate_none(rs, max_results) == <<>>

\* results[:max_results], with Python's meaning of a negative bound
Truncate(rs, max_results) ==
    IF max_results >= 0
    THEN SubSeq(rs, 1, Min(Len(rs), max_results))
    ELSE SubSeq(rs, 1, Len(rs) + max_results)

(* ------------------- the search API, as the code sees it -------------- *)
\* the k-th item the API delivers for query q; every second item lacks
\* the optional snippet and formattedUrl keys
ItemOf(q, k) ==
    IF k % 2 = 1
    THEN [title |-> <<"t", k>>, link |-> <<q, k>>, snippet |-> <<"s", k>>,
          displayLink |-> <<"d", k>>, formattedUrl |-> <<"f", k>>]
    ELSE [title |-> <<"t", k>>, link |-> <<q, k>>, displayLink |-> <<"d", k>>]

\* a page of n items following the already delivered ones
ItemsPage(q, already, n) == [i \in 1..n |-> ItemOf(q, already + i)]

\* what one requests.get + response.json() can produce for a request of num:
\* an exception, a non-200 status, a body without 'items', a body with an
\* items list that is empty, one short of num, num, or up to MaxExtra longer
PageCounts(num) == {0} \cup {n \in (num - 1)..(num + MaxExtra) : n >= 0}

Responses(num) ==
    {[kind |-> "raise"], [kind |-> "status", status |-> 500],
     [kind |-> "nokey", status |-> StatusOK]}
    \cup {[kind |-> "items", status |-> StatusOK, n |-> n] : n \in PageCounts(num)}

(* ----------------------- EbookSearcher.search_books ------------------- *)
\* result['source_site'] = site; result['search_keywords'] = keywords
TagResult(r, s, kws) ==
    [title |-> r.title, link |-> r.link, snippet |-> r.snippet,
     displayLink |-> r.displayLink, formattedUrl |-> r.formattedUrl,
     source_site |-> s, search_keywords |-> kws]

TagResults(rs, s, kws) == [i \in 1..Len(rs) |-> TagResult(rs[i], s, kws)]

\* variant: the new results in front
Extend_prepend(all, rs) == rs \o all

\* all_results.extend(results)
Extend(all, rs) == all \o rs

\* variant: the pages fetched before the exception are kept
AfterException_keep(all, partial) == all \o partial

\* except Exception: print; continue -- what all_results is afterwards
AfterException(all, partial) == all

(* ----------------------- EbookSearcher.save_results ------------------- *)
\* str(list of str) for strings without quote or backslash characters
ReprList(xs) ==
    <<"[">> \o Join(<<",", " ">>, [i \in 1..Len(xs) |-> <<"'">> \o xs[i] \o <<"'">>]) \o <<"]">>

\* the columns of pd.DataFrame(results): the keys of the dicts in order
CsvHeader ==
    <<"title", "link", "snippet", "displayLink", "formattedUrl",
      "source_site", "search_keywords">>

CsvRow(r) ==
    <<r.title, r.link, r.snippet, r.displayLink, r.formattedUrl,
      r.source_site, ReprList(r.search_keywords)>>

\* variant: header=False
to_csv_noheader(rs) == [i \in 1..Len(rs) |-> CsvRow(rs[i])]

\* df.to_csv(filename, index=False): the header row, then one row per dict
to_csv(rs) == <<CsvHeader>> \o [i \in 1..Len(rs) |-> CsvRow(rs[i])]

(* ------------------------------ state --------------------------------- *)
VARIABLES
    pc,                    \* position of the run
    env,                   \* the process environment after load_dotenv
    site_file,             \* ebook_sites.txt: None (absent) or its lines
    csv_file,              \* the destination CSV: None (absent) or its rows
    api_key, search_engine_id, keywords, filetypes, max_results_per_site,
    ebook_sites,           \* self.ebook_sites
    site_idx,              \* index of the for loop over sites
    site,                  \* the loop variable of search_books
    args,                  \* the arguments of the latest build_query call
    query,                 \* build_query's return value
    all_results,           \* search_books' all_results
    results, start_index,  \* _perform_search's locals
    error,                 \* the exception that ended the run, or None
    save_msg,              \* what save_results printed
    pauses,                \* number of time.sleep(1) calls so far
    last_request,          \* params of the current site's latest requests.get
    last_response,         \* latest response of the current site, or None
    site_requests,         \* requests issued for the current site
    requested,             \* TRUE once any request was issued in the run
    outcomes               \* history: one record per site already processed

vars == <<pc, env, site_file, csv_file, api_key, search_engine_id, keywords,
          filetypes, max_results_per_site, ebook_sites, site_idx, site, args, query,
          all_results, results, start_index, error, save_msg, pauses,
          last_request, last_response, site_requests, requested, outcomes>>

configVars == <<env, site_file>>
loadedVars == <<api_key, search_engine_id, keywords, filetypes, max_results_per_site>>
searchVars == <<site_idx, site, args, query, all_results, results, start_index, pauses,
                last_request, last_response, site_requests, requested, outcomes>>

(* ------------------------------ inputs -------------------------------- *)
S_a_io == <<"a",".","i","o">>
S_b_org == <<"b","-","2",".","o","r","g">>

\* str(n) for 0 <= n <= 99
DigitChar(d) == <<"0","1","2","3","4","5","6","7","8","9">>[d + 1]
ToStr(n) == IF n < 10 THEN <<DigitChar(n)>> ELSE <<DigitChar(n \div 10), DigitChar(n % 10)>>

\* values MAX_RESULTS_PER_SITE may hold: unset, not a number, "0", " 1",
\* and a cap above the page size
CapEnvValues ==
    {None, Some(<<"x">>), Some(ToStr(0)), Some(<<" ">> \o ToStr(1)),
     Some(ToStr(PageSize + MaxCap))}

KeywordEnvValues ==
    {None, Some(<<" ", ",">>), Some(<<"a"," ","b",","," ","c">>)}

FiletypeEnvValues == {None, Some(<<"p","d","f",",","e","p","u","b">>)}

Environments ==
    [API_KEY : {None, Some(<<"k">>)},
     SEARCH_ENGINE_ID : {None, Some(<<"e">>)},
     KEYWORDS : KeywordEnvValues,
     FILETYPES : FiletypeEnvValues,
     MAX_RESULTS_PER_SITE : CapEnvValues]

\* ebook_sites.txt: absent, without a valid line, one site, two sites among
\* lines the pattern rejects
SiteFiles ==
    {None,
     Some(<<(<<"#"," ","s","i","t","e","s","\n">>), (<<"\n">>), (<<"a",".","i","\n">>)>>),
     Some(<<(S_a_io \o <<"\n">>)>>),
     Some(<<(<<" ">> \o S_a_io \o <<"\n">>), (<<"h","t","t","p",":","/","/","x",".","i","o","\n">>),
            (<<"\n">>), S_b_org>>)}

OldCsv == <<(<<"old">>)>>

NoArgs == [keywords |-> <<>>, site |-> None, filetypes |-> None]

Init ==
    /\ pc = "start"
    /\ env \in Environments
    /\ site_file \in SiteFiles
    /\ csv_file \in {None, Some(OldCsv)}
    /\ api_key = None /\ search_engine_id = None
    /\ keywords = <<>> /\ filetypes = <<>> /\ max_results_per_site = 0
    /\ ebook_sites = <<>> /\ site_idx = 0 /\ site = <<>> /\ query = <<>>
    /\ args = NoArgs
    /\ all_results = <<>> /\ results = <<>> /\ start_index = 0
    /\ error = None /\ save_msg = None /\ pauses = 0
    /\ last_request = None /\ last_response = None
    /\ site_requests = 0 /\ requested = FALSE /\ outcomes = <<>>

(* ------------------------------ actions ------------------------------- *)
\* load_environment_variables(): int() failing becomes a RuntimeError; then
\* the None test on api_key, search_engine_id and keywords
LoadEnvironment ==
    /\ pc = "start"
    /\ LET kws == load_and_clean_env_list(env, "KEYWORDS")
           fts == load_and_clean_env_list(env, "FILETYPES")
           cap == IF env["MAX_RESULTS_PER_SITE"] = None
                  THEN Some(DefaultCap)
                  ELSE ParseInt(env["MAX_RESULTS_PER_SITE"].val)
       IN IF cap = None
          THEN /\ pc' = "fatal" /\ error' = Some("RuntimeError")
               /\ UNCHANGED loadedVars
          ELSE IF env["API_KEY"] = None \/ env["SEARCH_ENGINE_ID"] = None
          THEN /\ pc' = "fatal" /\ error' = Some("ValueError")
               /\ UNCHANGED loadedVars
          ELSE /\ pc' = "loaded" /\ error' = error
               /\ api_key' = env["API_KEY"]
               /\ search_engine_id' = env["SEARCH_ENGINE_ID"]
               /\ keywords' = kws
               /\ filetypes' = fts
               /\ max_results_per_site' = cap.val
    /\ UNCHANGED <<configVars, csv_file, ebook_sites, searchVars, save_msg>>

\* EbookSearcher.__init__ with get_ebook_sites(), then the entry of
\* search_books: sites = self.ebook_sites, all_results = []
InitSearcher ==
    /\ pc = "loaded"
    /\ IF site_file = None
       THEN /\ pc' = "fatal" /\ error' = Some("FileNotFoundError")
            /\ UNCHANGED <<ebook_sites, site_idx, all_results>>
       ELSE IF ValidSites(site_file.val) = <<>>
       THEN /\ pc' = "fatal" /\ error' = Some("ValueError")
            /\ UNCHANGED <<ebook_sites, site_idx, all_results>>
       ELSE /\ pc' = "site_loop" /\ error' = error
            /\ ebook_sites' = ValidSites(site_file.val)
            /\ site_idx' = 1
            /\ all_results' = <<>>
    /\ UNCHANGED <<configVars, csv_file, loadedVars, site, args, query, results, start_index,
                   save_msg, pauses, last_request, last_response, site_requests,
                   requested, outcomes>>

\* for site in sites: query = build_query(...); entry of _perform_search
BeginSite ==
    /\ pc = "site_loop"
    /\ site_idx <= Len(ebook_sites)
    /\ site' = ebook_sites[site_idx]
    /\ args' = [keywords |-> keywords, site |-> Some(ebook_sites[site_idx]),
                filetypes |-> Some(filetypes)]
    /\ query' = build_query(keywords, Some(ebook_sites[site_idx]), Some(filetypes))
    /\ results' = <<>>
    /\ start_index' = FirstStart
    /\ site_requests' = 0
    /\ last_request' = None
    /\ last_response' = None
    /\ pc' = "page_loop"
    /\ UNCHANGED <<configVars, csv_file, loadedVars, ebook_sites, site_idx, all_results,
                   error, save_msg, pauses, requested, outcomes>>

\* the history record of a processed site: how its search ended, the
\* results fetched from its pages, what _perform_search returned (nothing
\* when it raised), by how much all_results grew, whether a non-200 was seen
Outcome(status, returned, sawNon200) ==
    [site |-> site, status |-> status, fetched |-> results,
     returned |-> returned,
     contributed |-> Len(all_results') - Len(all_results),
     non200 |-> sawNon200]

\* _perform_search returned rs: tag, extend, sleep one second, next site
SiteReturned(rs, sawNon200) ==
    /\ all_results' = Extend(all_results, TagResults(rs, site, keywords))
    /\ pauses' = pauses + 1
    /\ outcomes' = Append(outcomes, Outcome("returned", rs, sawNon200))
    /\ site_idx' = site_idx + 1
    /\ pc' = "site_loop"

\* _perform_search raised: print the error, continue with the next site
SiteRaised ==
    /\ all_results' = AfterException(all_results, TagResults(results, site, keywords))
    /\ pauses' = pauses
    /\ outcomes' = Append(outcomes, Outcome("exception", <<>>, FALSE))
    /\ site_idx' = site_idx + 1
    /\ pc' = "site_loop"

\* one iteration of the while loop: the request and the handling of its
\* response, through to the end of the site when the loop is left
FetchPage ==
    /\ pc = "page_loop"
    /\ LoopGuard(Len(results), start_index, max_results_per_site)
    /\ LET num == NumParam(max_results_per_site, Len(results))
       IN /\ last_request' = Some([start |-> start_index, num |-> num, q |-> query])
          /\ requested' = TRUE
          /\ site_requests' = site_requests + 1
          /\ \E resp \in Responses(num) :
               CASE resp.kind = "raise" ->
                      /\ SiteRaised
                      /\ UNCHANGED <<results, start_index, last_response>>
                 [] resp.kind = "status" ->
                      /\ SiteReturned(Truncate(results, max_results_per_site), TRUE)
                      /\ UNCHANGED <<results, start_index, last_response>>
                 [] resp.kind = "nokey" ->
                      /\ SiteReturned(Truncate(results, max_results_per_site), FALSE)
                      /\ UNCHANGED <<results, start_index, last_response>>
                 [] resp.kind = "items" ->
                      /\ results' = AppendItems(results, ItemsPage(query, Len(results), resp.n))
                      /\ start_index' = start_index + StartStep
                      /\ last_response' = Some([status |-> resp.status, n |-> resp.n])
                      /\ UNCHANGED <<all_results, pauses, outcomes, site_idx, pc>>
    /\ UNCHANGED <<configVars, csv_file, loadedVars, ebook_sites, site, args, query, error, save_msg>>

\* the while condition is false: return results[:max_results]
ReturnResults ==
    /\ pc = "page_loop"
    /\ ~LoopGuard(Len(results), start_index, max_results_per_site)
    /\ SiteReturned(Truncate(results, max_results_per_site), FALSE)
    /\ UNCHANGED <<configVars, csv_file, loadedVars, ebook_sites, site, args, query, results,
                   start_index, error, save_msg, last_request, last_response,
                   site_requests, requested>>

\* search_books returns all_results; main displays them and calls
\* save_results(results, "ebook_search_results.csv")
SaveResults ==
    /\ pc = "site_loop"
    /\ site_idx > Len(ebook_sites)
    /\ IF all_results = <<>>
       THEN /\ save_msg' = Some("No results to save.")
            /\ csv_file' = csv_file
       ELSE /\ csv_file' = Some(to_csv(all_results))
            /\ save_msg' = Some("Results saved")
    /\ pc' = "done"
    /\ UNCHANGED <<configVars, loadedVars, ebook_sites, searchVars, error>>

Next ==
    \/ LoadEnvironment
    \/ InitSearcher
    \/ BeginSite
    \/ FetchPage
    \/ ReturnResults
    \/ SaveResults

Spec == Init /\ [][Next]_vars

(* -------------- build_query as a function of its arguments ------------ *)
W_Nietzsche == <<"N","i","e","t","z","s","c","h","e">>
W_Gay == <<"G","a","y">>
W_two_words == <<"w","a","r"," ","a","n","d">>
W_quoted == <<"a","\"","b">>
S_example_com == <<"e","x","a","m","p","l","e",".","c","o","m">>
T_pdf == <<"p","d","f">>
T_epub == <<"e","p","u","b">>

QueryWords == {W_Nietzsche, W_Gay, W_two_words, W_quoted}

\* non-empty keyword lists of one or two words
KeywordLists == {<<w>> : w \in QueryWords} \cup {<<w1, w2>> : w1 \in QueryWords, w2 \in QueryWords}

\* site argument: None, the default "", or a host
SiteArgs == {None, Some(<<>>), Some(S_example_com), Some(S_a_io)}

\* filetypes argument: None, the default "" (which is also []), or a list
FiletypeArgs ==
    {None, Some(<<>>), Some(<<T_pdf>>), Some(<<T_pdf, T_epub>>), Some(<<T_epub, T_pdf>>)}

InitQuery ==
    /\ pc = "query_args"
    /\ args \in [keywords : KeywordLists, site : SiteArgs, filetypes : FiletypeArgs]
    /\ keywords = <<>> /\ filetypes = <<>> /\ site = <<>>
    /\ env = [API_KEY |-> None, SEARCH_ENGINE_ID |-> None, KEYWORDS |-> None,
              FILETYPES |-> None, MAX_RESULTS_PER_SITE |-> None]
    /\ site_file = None /\ csv_file = None
    /\ api_key = None /\ search_engine_id = None /\ max_results_per_site = 0
    /\ ebook_sites = <<>> /\ site_idx = 0 /\ query = <<>>
    /\ all_results = <<>> /\ results = <<>> /\ start_index = 0
    /\ error = None /\ save_msg = None /\ pauses = 0
    /\ last_request = None /\ last_response = None
    /\ site_requests = 0 /\ requested = FALSE /\ outcomes = <<>>

\* a call of build_query(keywords, site, filetypes)
BuildQuery ==
    /\ pc = "query_args"
    /\ query' = build_query(args.keywords, args.site, args.filetypes)
    /\ pc' = "query_built"
    /\ UNCHANGED <<configVars, csv_file, loadedVars, ebook_sites, site_idx, site, args,
                   all_results, results, start_index, error, save_msg, pauses,
                   last_request, last_response, site_requests, requested, outcomes>>

NextQuery == BuildQuery

SpecQuery == InitQuery /\ [][NextQuery]_vars

(* ============================== claims ================================ *)
RECURSIVE SumLen(_)
SumLen(ls) == IF ls = <<>> THEN 0 ELSE Len(Head(ls)) + SumLen(Tail(ls))

\* the entries of all_results whose source_site is s
FromSite(s) == {i \in 1..Len(all_results) : all_results[i].source_site = s}

AllSitesProcessedInOrder ==
    /\ Len(outcomes) <= Len(ebook_sites)
    /\ \A i \in 1..Len(outcomes) : outcomes[i].site = ebook_sites[i]
    /\ pc = "done" => Len(outcomes) = Len(ebook_sites)

\* the configuration lacks the API key, the engine id or the keywords, or
\* the site list file is absent or has no valid line
ConfigMissing ==
    \/ env["API_KEY"] = None
    \/ env["SEARCH_ENGINE_ID"] = None
    \/ load_and_clean_env_list(env, "KEYWORDS") = <<>>
    \/ site_file = None
    \/ (site_file # None /\ ValidSites(site_file.val) = <<>>)

\* C1: every request issued by _perform_search has a start offset of at
\* most 91 and a num parameter of at most 10.
C1_RequestWithinApiLimits ==
    last_request # None =>
        /\ last_request.val.start <= 91
        /\ last_request.val.num <= 10

\* a request at the last offset the API supports, asking for a full page
C1_Witness ==
    /\ last_request # None
    /\ last_request.val.start = 91
    /\ last_request.val.num = 10
    /\ max_results_per_site > 10

\* C2: _perform_search returns at most max_results_per_site items for a
\* site, also when a page carried more items than requested, so each site
\* has at most max_results_per_site entries in the aggregate.
C2_AtMostCapPerSite ==
    /\ \A i \in 1..Len(outcomes) :
         /\ Len(outcomes[i].returned) <= max_results_per_site
         /\ outcomes[i].contributed <= max_results_per_site
    /\ \A i \in 1..Len(ebook_sites) :
         Cardinality(FromSite(ebook_sites[i])) <= max_results_per_site

\* a site whose pages overshot the cap and whose result list was cut to it
C2_Witness ==
    \E i \in 1..Len(outcomes) :
        /\ Len(outcomes[i].fetched) > max_results_per_site
        /\ Len(outcomes[i].returned) = max_results_per_site
        /\ max_results_per_site > 0
        /\ Cardinality(FromSite(outcomes[i].site)) = max_results_per_site

\* C3: a site whose HTTP call raised on any page contributes nothing to the
\* aggregate, not even what its earlier pages delivered, and every
\* remaining site is still processed, in order.
C3_ExceptionSiteContributesNothing ==
    /\ \A i \in 1..Len(outcomes) :
         outcomes[i].status = "exception" =>
             /\ outcomes[i].contributed = 0
             /\ FromSite(outcomes[i].site) = {}
    /\ AllSitesProcessedInOrder

\* the first site raised on a later page, the second one delivered results
C3_Witness ==
    /\ pc = "done"
    /\ Len(outcomes) = 2
    /\ outcomes[1].status = "exception"
    /\ outcomes[1].fetched # <<>>
    /\ outcomes[2].status = "returned"
    /\ all_results # <<>>

C5_MissingConfigIsFatal ==
    ConfigMissing =>
        /\ ~requested
        /\ pc # "done"

\* C6: all_results is the concatenation, in site order, of the lists the
\* sites' searches returned; every entry carries the site whose query
\* produced it and the keyword list of the call.
C6_AggregateIsTaggedConcatenation ==
    /\ Len(all_results) = SumLen([i \in 1..Len(outcomes) |-> outcomes[i].returned])
    /\ \A i \in 1..Len(outcomes) :
         \A j \in 1..Len(outcomes[i].returned) :
            LET e == all_results[SumLen([k \in 1..(i - 1) |-> outcomes[k].returned]) + j]
                r == outcomes[i].returned[j]
            IN /\ e.title = r.title /\ e.link = r.link /\ e.snippet = r.snippet
               /\ e.displayLink = r.displayLink /\ e.formattedUrl = r.formattedUrl
               /\ e.source_site = ebook_sites[i]
               /\ e.search_keywords = keywords
    /\ \A n \in 1..Len(all_results) :
         /\ all_results[n].link[1] =
                build_query(keywords, Some(all_results[n].source_site), Some(filetypes))
         /\ all_results[n].source_site \in {ebook_sites[i] : i \in 1..Len(ebook_sites)}

\* both sites returned results and both are in the aggregate
C6_Witness ==
    /\ pc = "done"
    /\ Len(outcomes) = 2
    /\ outcomes[1].returned # <<>>
    /\ outcomes[2].returned # <<>>
    /\ Len(all_results) = Len(outcomes[1].returned) + Len(outcomes[2].returned)

\* C7: a one-second pause follows the search of every site, whether it
\* succeeded, returned nothing or failed with an exception.
C7_PauseAfterEverySite == ~ConfigMissing => pauses = Len(outcomes)

\* the step in which main calls save_results
C8_SaveStep ==
    (pc = "site_loop" /\ pc' = "done") =>
        IF all_results = <<>>
        THEN /\ csv_file' = csv_file
             /\ save_msg' = Some("No results to save.")
        ELSE /\ csv_file' # None
             /\ Len(csv_file'.val) = Len(all_results) + 1
             /\ csv_file'.val[1] = CsvHeader
             /\ \A i \in 1..Len(all_results) :
                  /\ csv_file'.val[i + 1][1] = all_results[i].title
                  /\ csv_file'.val[i + 1][2] = all_results[i].link
                  /\ csv_file'.val[i + 1][6] = all_results[i].source_site
             /\ save_msg' # Some("No results to save.")

\* C8: save_results with no results writes nothing, leaves the destination
\* as it was and reports that nothing was saved; with N >= 1 results the
\* destination becomes one header row followed by N rows, one per result
\* in aggregate order.
C8_SaveWritesHeaderAndRows == [][C8_SaveStep]_vars

\* results of two sites were saved as a header and one row each
C8_Witness ==
    /\ pc = "done"
    /\ Len(all_results) >= 2
    /\ Cardinality(FromSite(S_a_io)) >= 1
    /\ Len(all_results) > Cardinality(FromSite(S_a_io))
    /\ csv_file # None
    /\ Len(csv_file.val) = Len(all_results) + 1

\* the query of claim C9, written from its words
RECURSIVE QuotedWords(_)
QuotedWords(kws) ==
    IF kws = <<>> THEN <<>>
    ELSE <<" ", "\"">> \o Head(kws) \o <<"\"">> \o QuotedWords(Tail(kws))

RECURSIVE FiletypeTerms(_)
FiletypeTerms(fts) ==
    IF fts = <<>> THEN <<>>
    ELSE <<" ","O","R"," ","f","i","l","e","t","y","p","e",":">> \o Head(fts)
         \o FiletypeTerms(Tail(fts))

\* an optional argument is given when it is neither None nor empty
Given(x) == x # None /\ x # Some(<<>>)

ExpectedQuery(kws, s, fts) ==
    (IF Given(s) THEN <<"s","i","t","e",":">> \o s.val \o <<" ">> ELSE <<>>)
    \o Tail(QuotedWords(kws))
    \o (IF Given(fts)
        THEN <<" ">> \o SubSeq(FiletypeTerms(fts.val), 5, Len(FiletypeTerms(fts.val)))
        ELSE <<>>)

ExampleQuery == <<"s","i","t","e",":","e","x","a","m","p","l","e",".","c","o","m"," ","\"","N","i","e","t","z","s","c","h","e","\""," ","\"","G","a","y","\""," ","f","i","l","e","t","y","p","e",":","p","d","f"," ","O","R"," ","f","i","l","e","t","y","p","e",":","e","p","u","b">>

IsExample ==
    /\ args.keywords = <<W_Nietzsche, W_Gay>>
    /\ args.site = Some(S_example_com)
    /\ args.filetypes = Some(<<T_pdf, T_epub>>)

\* C9: before percent-encoding, the query is 'site:<site> ' when a site is
\* given, the keywords each in double quotes joined by single spaces, and,
\* when file types are given, a space and the filetype:<t> terms joined by
\* ' OR '; the Nietzsche example gives the query of the specification.
C9_QueryFormat ==
    pc = "query_built" =>
        /\ unquote(query) = ExpectedQuery(args.keywords, args.site, args.filetypes)
        /\ IsExample => unquote(query) = ExampleQuery

C9_Witness ==
    /\ pc = "query_built"
    /\ IsExample
    /\ unquote(query) = ExampleQuery

\* a condition after which claim C10 allows no further request of the site
StopCondition ==
    \/ Len(results) >= max_results_per_site
    \/ start_index > 91
    \/ (last_response # None /\ last_response.val.status # 200)
    \/ (last_response # None /\ last_response.val.n = 0)

RequestIssued == last_request' # None /\ last_request' # last_request

C10_Step == (~ConfigMissing /\ pc = "page_loop" /\ StopCondition) => ~RequestIssued

\* C10: once the result count reached the maximum, the next start offset
\* exceeds 91, the last response was unsuccessful or the last response
\* carried no items (no items key, or an empty list), the pagination loop
\* issues no further request for the site.
C10_NoRequestAfterStop == [][C10_Step]_vars

====
